---- MODULE Spec2Model ----
(***************************************************************************)
(* A model of the Fresh 1.x -> 2.x updater (src/update/src/update.ts).     *)
(*                                                                         *)
(* The syntax tree that ts-morph exposes is modelled by records:           *)
(*   - an expression is [kind, root, names, args, sub]                     *)
(*       "id"    an identifier, its text in root                           *)
(*       "pae"   a property-access chain  root.names[1]. ... .names[n]     *)
(*       "call"  a call, callee sub[1], argument texts args                *)
(*       "await" an awaited expression sub[1]                              *)
(*       "bin"   a binary expression sub[1] op sub[2]                      *)
(*       "none"  no expression                                             *)
(*   - a statement is [kind, e, parent]; a function body is the list that  *)
(*     getDescendantStatements() returns (every descendant statement, in   *)
(*     document order), parent being the index of the enclosing compound   *)
(*     statement in that list, or 0.                                       *)
(***************************************************************************)
EXTENDS Integers, Sequences, FiniteSets, TLC

VARIABLES
  wBody,    \* walker: the statement list being rewritten
  wQueue,   \* walker: the statements still to visit, in the order of the loops
  wPrev,    \* walker: the statement last visited, as it was before the visit
  wLast,    \* walker: index of the statement last visited (0: none yet)
  pFn,      \* normalizer: the function node
  pCore,    \* normalizer: newImports.core
  pIn,      \* normalizer: the call's arguments as they were on entry
  pState,   \* normalizer: "ready", "returned" or "warned"
  fFile,    \* updateFile: the source file
  fIn,      \* updateFile: the source file before the first pass
  fPrev,    \* updateFile: the source file before the last pass
  fCore,    \* updateFile: newImports.core when the last pass came to line 394
  fRuns,    \* updateFile: the number of passes made over the file
  mDisk,    \* manifest: the text of deno.json and of deno.jsonc in the directory
  mRes,     \* manifest: what the last run of the manifest update did
  mPrev,    \* manifest: what the run before the last did
  mRuns,    \* manifest: the number of runs made
  pc,       \* updateProject: where the run is
  files,    \* updateProject: the number of source files in the directory
  sfs,      \* updateProject: the source files found, in order
  launched, \* updateProject: how many callbacks sfs.map has started
  task,     \* updateProject: per file, where its callback is and its wasModified
  written,  \* updateProject: the source files saved to disk
  processedCount,
  modifiedCount,
  results,  \* updateProject: per file, how its callback's promise settled
  settled,  \* updateProject: the files whose callbacks settled, in order
  returned  \* updateProject: the value the run returned

walkerVars == <<wBody, wQueue, wPrev, wLast>>
paramVars == <<pFn, pCore, pIn, pState>>
fileVars == <<fFile, fIn, fPrev, fCore, fRuns>>
manifestVars == <<mDisk, mRes, mPrev, mRuns>>
projectVars == <<pc, files, sfs, launched, task, written, processedCount, modifiedCount,
                 results, settled, returned>>
vars == <<wBody, wQueue, wPrev, wLast, pFn, pCore, pIn, pState,
          fFile, fIn, fPrev, fCore, fRuns, mDisk, mRes, mPrev, mRuns,
          pc, files, sfs, launched, task, written, processedCount, modifiedCount,
          results, settled, returned>>

\* ------------------------------------------------------------- bounds
MaxChain == 3
MaxArgs == 2
MaxDepth == 1

\* ------------------------------------------------- syntax tree values
NoExpr == [kind |-> "none", root |-> "", names |-> <<>>, args |-> <<>>, sub |-> <<>>]
Id(n) == [kind |-> "id", root |-> n, names |-> <<>>, args |-> <<>>, sub |-> <<>>]
Pae(r, ns) == [kind |-> "pae", root |-> r, names |-> ns, args |-> <<>>, sub |-> <<>>]
Call(f, as) == [kind |-> "call", root |-> "", names |-> <<>>, args |-> as, sub |-> <<f>>]
Await(e) == [kind |-> "await", root |-> "", names |-> <<>>, args |-> <<>>, sub |-> <<e>>]
Bin(l, r) == [kind |-> "bin", root |-> "", names |-> <<>>, args |-> <<>>, sub |-> <<l, r>>]
\* A statement; name is the variable a "var" statement declares.
Stmt(k, e, p) == [kind |-> k, name |-> IF k = "var" THEN "x" ELSE "", e |-> e, parent |-> p]
\* const n = r.m
ConstDecl(n, r, m) == [kind |-> "var", name |-> n, e |-> Pae(r, <<m>>), parent |-> 0]

SeqsUpTo(S, n) == UNION {[1..k -> S] : k \in 0..n}

\* ------------------------------------------------ rewriteCtxMemberName
\* The visit of the property access made of the first k names of chain c;
\* called says whether the parent of that node is a call expression.
\* The result is the chain's names and whether an argument was added.
RECURSIVE rewriteCtxMemberNameOuterCall(_, _, _)
rewriteCtxMemberNameOuterCall(c, k, called) ==
  IF k = 1 /\ c.root = "ctx" /\ c.names[1] = "remoteAddr"
  THEN [names |-> <<"info", "remoteAddr">> \o c.names, added |-> FALSE]
  ELSE IF c.names[k] = "renderNotFound"
  THEN [names |-> [c.names EXCEPT ![k] = "throw"], added |-> called]
  ELSE IF k > 1
  THEN rewriteCtxMemberNameOuterCall(c, k - 1, called)
  ELSE [names |-> c.names, added |-> FALSE]

RECURSIVE rewriteCtxMemberName(_, _, _)
rewriteCtxMemberName(c, k, called) ==
  IF k = 1 /\ c.root = "ctx" /\ c.names[1] = "remoteAddr"
  THEN [names |-> <<"info", "remoteAddr">> \o c.names, added |-> FALSE]
  ELSE IF c.names[k] = "renderNotFound"
  THEN [names |-> [c.names EXCEPT ![k] = "throw"], added |-> called]
  ELSE IF k > 1
  THEN rewriteCtxMemberName(c, k - 1, FALSE)
  ELSE [names |-> c.names, added |-> FALSE]

\* -------------------------------------------------- rewriteCtxMethods
\* rewriteCtxMethods([e]) for an expression node e.
RECURSIVE walkExpr(_)
walkExpr(e) ==
  CASE e.kind = "pae" ->
         [e EXCEPT !.names = rewriteCtxMemberName(e, Len(e.names), FALSE).names]
    [] e.kind = "call" ->
         LET f == e.sub[1] IN
         IF f.kind = "pae"
         THEN LET r == rewriteCtxMemberName(f, Len(f.names), TRUE) IN
              [e EXCEPT !.sub = <<[f EXCEPT !.names = r.names]>>,
                        !.args = IF r.added THEN e.args \o <<"404">> ELSE e.args]
         ELSE [e EXCEPT !.sub = <<walkExpr(f)>>]
    [] e.kind = "await" -> [e EXCEPT !.sub = <<walkExpr(e.sub[1])>>]
    [] e.kind = "bin" -> [e EXCEPT !.sub = <<walkExpr(e.sub[1]), walkExpr(e.sub[2])>>]
    [] OTHER -> e

\* The kinds whose name ends in "Statement" and that the earlier branches of
\* the dispatch do not take: the walker goes into their descendant statements.
IsCompound(s) == s.kind \in {"if", "throw"}

\* One visit of a statement that is not compound.
rewriteStmt(s) ==
  IF s.kind \in {"return", "var", "expr"} /\ s.e.kind # "none"
  THEN [s EXCEPT !.e = walkExpr(s.e)]
  ELSE s

RECURSIVE IsUnder(_, _, _)
IsUnder(body, j, i) ==
  body[j].parent # 0 /\ (body[j].parent = i \/ IsUnder(body, body[j].parent, i))

Descendants(body, i) == SelectSeq([j \in 1..Len(body) |-> j], LAMBDA j : IsUnder(body, j, i))

\* The visits that the loop over the nodes `idxs` makes, in order: a compound
\* statement is replaced by the visits of its descendant statements.
RECURSIVE VisitOrder(_, _)
VisitOrder(body, idxs) ==
  IF idxs = <<>> THEN <<>>
  ELSE LET i == Head(idxs) IN
       (IF IsCompound(body[i]) THEN VisitOrder(body, Descendants(body, i)) ELSE <<i>>)
         \o VisitOrder(body, Tail(idxs))

RECURSIVE ApplyVisits(_, _)
ApplyVisits(body, q) ==
  IF q = <<>> THEN body
  ELSE ApplyVisits([body EXCEPT ![Head(q)] = rewriteStmt(body[Head(q)])], Tail(q))

\* rewriteCtxMethods(body.getDescendantStatements())
rewriteCtxMethods(body) ==
  ApplyVisits(body, VisitOrder(body, [j \in 1..Len(body) |-> j]))

\* ---------------------------------------------- the walker, visit by visit
MemberNames == {"state", "remoteAddr", "renderNotFound"}
Roots == {"ctx", "props"}
Chains == {Pae(r, ns) : r \in Roots, ns \in SeqsUpTo(MemberNames, MaxChain) \ {<<>>}}
ArgLists == SeqsUpTo({"a", "b"}, MaxArgs)
Calls == {Call(c, as) : c \in Chains, as \in ArgLists}
WalkerExprs ==
  Chains \cup Calls \cup {Await(c) : c \in Calls}
    \cup {Bin(c, Id("x")) : c \in Chains} \cup {Bin(Id("x"), Call(c, <<>>)) : c \in Chains}

Nest(s, d) == [j \in 1..(d + 1) |-> IF j <= d THEN Stmt("if", NoExpr, j - 1)
                                              ELSE [s EXCEPT !.parent = d]]
WalkerBodies ==
  {Nest(Stmt(k, e, 0), d) : k \in {"return", "var", "expr", "throw"},
                            e \in WalkerExprs, d \in 0..MaxDepth}

WalkerIdle ==
  /\ wBody = <<>>
  /\ wQueue = <<>>
  /\ wPrev = Stmt("none", NoExpr, 0)
  /\ wLast = 0

WalkerStart ==
  /\ wBody \in WalkerBodies
  /\ wQueue = VisitOrder(wBody, [j \in 1..Len(wBody) |-> j])
  /\ wPrev = Stmt("none", NoExpr, 0)
  /\ wLast = 0

\* One iteration of the loop of rewriteCtxMethods that reaches a statement.
WalkStep ==
  /\ wQueue # <<>>
  /\ wPrev' = wBody[Head(wQueue)]
  /\ wLast' = Head(wQueue)
  /\ wBody' = [wBody EXCEPT ![Head(wQueue)] = rewriteStmt(wBody[Head(wQueue)])]
  /\ wQueue' = Tail(wQueue)
  /\ UNCHANGED <<paramVars, fileVars, manifestVars, projectVars>>

\* ------------------------------------------------------ function nodes
\* A parameter: an identifier (pattern FALSE, its name in name) or an object
\* binding pattern (pattern TRUE, the bound names in elems).  tight says that
\* the pattern's text has no space before its closing brace ("{a}" rather
\* than "{ a }").  type is the text of the type annotation, "" for none.
IdParam(n, t) == [name |-> n, pattern |-> FALSE, elems |-> <<>>, tight |-> FALSE, type |-> t]
PatParam(es, tg, t) == [name |-> "{}", pattern |-> TRUE, elems |-> es, tight |-> tg, type |-> t]
\* A function-like node: kind is "method", "arrow", "funcexpr" or "funcdecl";
\* block says that its body is a block (only an arrow function's may not be).
Fn(k, ps, blk, b) == [kind |-> k, params |-> ps, block |-> blk, body |-> b]

\* paramName.startsWith("_"), over the names of the model
StartsWithUnderscore(n) == n \in {"_", "_req", "_ctx"}

\* The text of a bound name without its last character.
Chop(n) ==
  CASE n = "info" -> "inf"
    [] n = "params" -> "param"
    [] n = "state" -> "stat"
    [] n = "remoteAddr" -> "remoteAdd"
    [] OTHER -> "?"

\* method.insertVariableStatement(0, ...): the statements after it move down.
InsertFirst(s, body) ==
  <<s>> \o [j \in 1..Len(body) |->
             [body[j] EXCEPT !.parent = IF @ = 0 THEN 0 ELSE @ + 1]]

\* binding.replaceWithText("info") for every binding named remoteAddr
RenameRemoteAddr(es) == [j \in 1..Len(es) |-> IF es[j] = "remoteAddr" THEN "info" ELSE es[j]]

\* maybeObjBinding.replaceWithText(getFullText().slice(0, -2) + ", req }"):
\* the last two characters are " }" when a space precedes the brace, and
\* the last character of the last name and "}" otherwise.
SpliceReq(p) ==
  LET es == p.elems
      kept == IF p.tight THEN [es EXCEPT ![Len(es)] = Chop(es[Len(es)])] ELSE es
  IN [p EXCEPT !.elems = kept \o <<"req">>, !.tight = FALSE]

\* params[0].replaceWithText("ctx"), then the type when it is not inferred
\* (lines 531-535)
ctxParamTypedAlways(inferred) == IdParam("ctx", "FreshContext")
ctxParam(inferred) == IdParam("ctx", IF inferred THEN "" ELSE "FreshContext")

\* The condition of lines 562-567, under which "const <paramName> = ctx.req"
\* is inserted.
needsReqDeclAlsoForPattern(isPattern, hasRequestVar, paramName) ==
  hasRequestVar /\ ~StartsWithUnderscore(paramName)
needsReqDeclIgnoringUnderscore(isPattern, hasRequestVar, paramName) ==
  ~isPattern /\ hasRequestVar
needsReqDecl(isPattern, hasRequestVar, paramName) ==
  ~isPattern /\ hasRequestVar /\ ~StartsWithUnderscore(paramName)

\* ------------------------------------------------- maybePrependReqVar
\* The result: the function node, newImports.core and whether the warning
\* "Cannot transform arrow function" was printed.
maybePrependReqVar(method, core, hasInferredTypes) ==
  LET params == method.params
      n == Len(params)
  IN
  IF n = 0 THEN [fn |-> method, core |-> core, warned |-> FALSE]
  ELSE
  LET paramName == params[1].name
      inferred == IF hasInferredTypes /\ params[1].type # "" THEN FALSE ELSE hasInferredTypes
      hasRequestVar == n > 1 \/ paramName = "req"
      touch == hasRequestVar \/ paramName = "_req"
      rename == touch /\ hasRequestVar /\ n = 1
      remove == touch /\ ~rename
      retype == remove /\ n > 1 /\ params[2].type = "RouteContext"
      \* params[0] and params[1] after lines 529-548
      first == IF rename
               THEN ctxParam(inferred)
               ELSE params[1]
      second == IF n > 1
                THEN (IF retype THEN [params[2] EXCEPT !.type = "FreshContext"] ELSE params[2])
                ELSE first
      core1 == IF (rename /\ ~inferred) \/ retype THEN core \cup {"FreshContext"} ELSE core
      isPattern == n > 1 /\ params[2].pattern
      stopped == method.kind = "arrow" /\ ~method.block
      bound == hasRequestVar /\ ~StartsWithUnderscore(paramName)
      addReq == ~stopped /\ needsReqDecl(isPattern, hasRequestVar, paramName)
      inPattern == ~stopped /\ isPattern /\ Len(params[2].elems) > 0
      needsRemoteAddr == inPattern /\ \E j \in 1..Len(params[2].elems) : params[2].elems[j] = "remoteAddr"
      renamed == IF inPattern THEN [second EXCEPT !.elems = RenameRemoteAddr(@)] ELSE second
      second2 == IF inPattern /\ bound THEN SpliceReq(renamed) ELSE renamed
      rest == [j \in 1..(n - 2) |-> params[j + 2]]
      params2 == IF n = 1
                 THEN (IF remove THEN <<>> ELSE <<first>>)
                 ELSE (IF remove THEN <<>> ELSE <<first>>) \o <<second2>> \o rest
      body1 == IF addReq THEN InsertFirst(ConstDecl(paramName, "ctx", "req"), method.body)
               ELSE method.body
      body2 == IF needsRemoteAddr
               THEN InsertFirst(ConstDecl("remoteAddr", "info", "remoteAddr"), body1)
               ELSE body1
  IN [fn |-> [method EXCEPT !.params = params2, !.body = body2],
      core |-> core1, warned |-> stopped]

\* ------------------------------------- the normalizer, one call at a time
MaxParams == 3
MaxElems == 2
BindNames == {"remoteAddr", "params", "state"}
DistinctSeqs(S, n) == {q \in SeqsUpTo(S, n) : \A i, j \in 1..Len(q) : q[i] = q[j] => i = j}
FirstParams ==
  {IdParam(nm, t) : nm \in {"req", "_req", "request", "ctx", "_"}, t \in {"", "Request"}}
    \cup {PatParam(<<"params">>, FALSE, "")}
SecondParams ==
  {IdParam(nm, t) : nm \in {"ctx", "context", "req"}, t \in {"", "RouteContext"}}
    \cup {PatParam(es, tg, t) : es \in DistinctSeqs(BindNames, MaxElems),
                                tg \in BOOLEAN, t \in {"", "RouteContext"}}
ExtraParams == {[j \in 1..k |-> IdParam("extra", "")] : k \in 0..(MaxParams - 2)}
ParamLists ==
  {<<>>} \cup {<<f>> : f \in FirstParams}
    \cup {<<f, g>> \o ex : f \in FirstParams, g \in SecondParams, ex \in ExtraParams}
SampleBody == <<Stmt("return", Call(Pae("ctx", <<"renderNotFound">>), <<>>), 0)>>
\* The body of an arrow function that is a single expression holds no statement.
FnShapes == {<<"method", TRUE>>, <<"funcexpr", TRUE>>, <<"funcdecl", TRUE>>,
             <<"arrow", TRUE>>, <<"arrow", FALSE>>}
ParamFns == {Fn(sh[1], ps, sh[2], IF sh[2] THEN SampleBody ELSE <<>>) :
               sh \in FnShapes, ps \in ParamLists}

ParamIdle ==
  /\ pIn = [fn |-> Fn("method", <<>>, TRUE, <<>>), inferred |-> FALSE, core |-> {}]
  /\ pFn = pIn.fn
  /\ pCore = {}
  /\ pState = "idle"

ParamStart ==
  /\ pIn \in [fn : ParamFns, inferred : BOOLEAN, core : {{}, {"FreshContext"}}]
  /\ pFn = pIn.fn
  /\ pCore = pIn.core
  /\ pState = "ready"

\* One call maybePrependReqVar(method, newImports, hasInferredTypes).
Normalize ==
  /\ pState = "ready"
  /\ LET r == maybePrependReqVar(pFn, pCore, pIn.inferred) IN
       /\ pFn' = r.fn
       /\ pCore' = r.core
       /\ pState' = IF r.warned THEN "warned" ELSE "returned"
  /\ UNCHANGED pIn
  /\ UNCHANGED <<walkerVars, fileVars, manifestVars, projectVars>>

\* ------------------------------------------------------- source files
\* A source file: inRoutes and private say whether its path includes
\* "/routes/" and whether its directory path includes "/(_"; lines are the
\* lines of text that precede the code; imports are its import declarations;
\* handler and default are its exported declarations of these names.
\*   an import declaration is [spec, named, other], other saying that it has
\*     a default or a namespace import;
\*   handler is [kind, fn, props], of kind "none", "func" (a function
\*     declaration fn), "object" (a variable initialised by an object literal
\*     with properties props) or "other";
\*   a property is [name, form, fn], of form "method", "assign" (a property
\*     assignment whose initialiser fn is an arrow function or a function
\*     expression) or "other";
\*   default is [kind, callee, fn], of kind "none", "call" (a call of the
\*     identifier callee whose first argument fn is an arrow function or a
\*     function expression), "func" (a function declaration fn) or "other".
Import(sp, nm, o) == [spec |-> sp, named |-> nm, other |-> o]
NoFn == Fn("none", <<>>, TRUE, <<>>)
Prop(n, f, fn) == [name |-> n, form |-> f, fn |-> fn]
Handler(k, fn, props) == [kind |-> k, fn |-> fn, props |-> props]
Default(k, c, fn) == [kind |-> k, callee |-> c, fn |-> fn]

Directives ==
  <<"/** @jsx h */", "/** @jsxFrag Fragment */",
    "/// <reference no-default-lib=\"true\" />", "/// <reference lib=\"dom\" />",
    "/// <reference lib=\"dom.iterable\" />", "/// <reference lib=\"dom.asynciterable\" />",
    "/// <reference lib=\"deno.ns\" />">>

\* text.replaceAll(d + "\n", "") over whole lines
RemoveLine(lines, d) == SelectSeq(lines, LAMBDA l : l # d)

RECURSIVE StripFrom(_, _)
StripFrom(lines, k) ==
  IF k > Len(Directives) THEN lines ELSE StripFrom(RemoveLine(lines, Directives[k]), k + 1)

\* The chain of replaceAll calls of lines 285-292.
StripDirectives(lines) == StripFrom(lines, 1)

compat ==
  {"defineApp", "defineLayout", "defineRoute", "AppProps", "ErrorPageProps",
   "Handler", "Handlers", "LayoutProps", "RouteContext", "UnknownPageProps"}

HttpMethods == {"GET", "POST", "PATCH", "PUT", "DELETE"}
DefineWrappers == {"defineApp", "defineLayout", "defineRoute"}

\* The condition of lines 298-301.
RewritesHandlersAlsoInPrivateGroups(f) == f.inRoutes
RewritesHandlers(f) == f.inRoutes /\ ~f.private

\* rewriteCtxMethods(body.getDescendantStatements()), then maybePrependReqVar.
rewriteFn(fn, core, hasInferredTypes) ==
  maybePrependReqVar([fn EXCEPT !.body = rewriteCtxMethods(fn.body)], core, hasInferredTypes)

\* Whether lines 312-341 rewrite the property.
RewritesProperty(pr) ==
  \/ pr.form = "method" /\ pr.name \in HttpMethods
  \/ pr.form = "assign" /\ pr.fn.kind \in {"arrow", "funcexpr"}

\* The loop of lines 311-342 from property k on: the properties and core.
RECURSIVE rewriteProps(_, _, _)
rewriteProps(props, k, core) ==
  IF k > Len(props) THEN [props |-> props, core |-> core]
  ELSE IF RewritesProperty(props[k])
  THEN LET r == rewriteFn(props[k].fn, core, TRUE) IN
       rewriteProps([props EXCEPT ![k].fn = r.fn], k + 1, r.core)
  ELSE rewriteProps(props, k + 1, core)

\* Lines 303-352: the exported declaration named handler.
rewriteHandler(h, core) ==
  CASE h.kind = "object" ->
         LET r == rewriteProps(h.props, 1, core) IN
         [decl |-> [h EXCEPT !.props = r.props], core |-> r.core]
    [] h.kind = "func" ->
         LET r == rewriteFn(h.fn, core, FALSE) IN
         [decl |-> [h EXCEPT !.fn = r.fn], core |-> r.core]
    [] OTHER -> [decl |-> h, core |-> core]

\* Lines 353-390: the exported declaration named default.
rewriteDefault(d, core) ==
  IF \/ d.kind = "call" /\ d.callee \in DefineWrappers /\ d.fn.kind \in {"arrow", "funcexpr"}
     \/ d.kind = "func"
  THEN LET r == rewriteFn(d.fn, core, FALSE) IN
       [decl |-> [d EXCEPT !.fn = r.fn], core |-> r.core]
  ELSE [decl |-> d, core |-> core]

\* ---------------------------------------------------- import rewriting
Without(q, S) == SelectSeq(q, LAMBDA x : x \notin S)
Elems(q) == {q[j] : j \in 1..Len(q)}

RECURSIVE SetToSeq(_)
SetToSeq(S) == IF S = {} THEN <<>> ELSE LET x == CHOOSE x \in S : TRUE IN <<x>> \o SetToSeq(S \ {x})

\* removeEmptyImport(d): whether d is removed.
IsEmptyImport(d) == Len(d.named) = 0 /\ ~d.other

\* One iteration of the loop of lines 398-446, for declaration d: the
\* declarations of the file so far are out, and st holds newImports.core,
\* newImports.runtime, newImports.compat (in insertion order) and the flags
\* hasCoreImport and hasRuntimeImport.
importStep(d, out, st) ==
  LET keep(x) == IF IsEmptyImport(x) THEN <<>> ELSE <<x>> IN
  CASE d.spec = "preact" ->
         [out |-> out \o keep([d EXCEPT !.named = Without(@, {"h", "Fragment"})]),
          st |-> st]
    [] d.spec = "$fresh/server.ts" ->
         LET core1 == st.core \ Elems(d.named)
             moved == SelectSeq(d.named, LAMBDA x : x \in compat)
             d1 == [d EXCEPT !.spec = "fresh",
                             !.named = Without(@, compat) \o SetToSeq(core1)]
         IN [out |-> out \o keep(d1),
             st |-> [st EXCEPT !.hasCoreImport = TRUE, !.core = core1,
                               !.compat = @ \o Without(moved, Elems(@))]]
    [] d.spec = "$fresh/runtime.ts" ->
         LET runtime1 == st.runtime \ Elems(d.named)
             d1 == [d EXCEPT !.spec = "fresh/runtime", !.named = @ \o SetToSeq(runtime1)]
         IN [out |-> out \o keep(d1),
             st |-> [st EXCEPT !.hasRuntimeImport = TRUE, !.runtime = runtime1]]
    [] OTHER -> [out |-> out \o <<d>>, st |-> st]

\* The loop of lines 398-446 over the list ds that getImportDeclarations()
\* returned, from declaration k on, acc being what the iterations before made.
RECURSIVE rewriteImportsFrom(_, _, _)
rewriteImportsFrom(ds, k, acc) ==
  IF k > Len(ds) THEN acc
  ELSE CHOOSE r \in {rewriteImportsFrom(ds, k + 1, nxt) :
                       nxt \in {importStep(ds[k], acc.out, acc.st)}} : TRUE

\* Lines 448-465: the import declarations added after the loop.
addedImports(st) ==
  (IF ~st.hasCoreImport /\ st.core # {}
   THEN <<Import("fresh", SetToSeq(st.core), FALSE)>> ELSE <<>>)
  \o (IF ~st.hasRuntimeImport /\ st.runtime # {}
      THEN <<Import("fresh/runtime", SetToSeq(st.core), FALSE)>> ELSE <<>>)
  \o (IF st.compat # <<>>
      THEN <<Import("fresh/compat", st.compat, FALSE)>> ELSE <<>>)

\* Lines 394-465.
rewriteImports(ds, core) ==
  LET r == rewriteImportsFrom(ds, 1,
             [out |-> <<>>,
              st |-> [core |-> core, runtime |-> {}, compat |-> <<>>,
                      hasCoreImport |-> FALSE, hasRuntimeImport |-> FALSE]])
  IN r.out \o addedImports(r.st)

\* ---------------------------------------------------------- updateFile
\* The file as saved, newImports.core as it is at line 394, and the value
\* returned.
updateFile(f) ==
  LET stripped == [f EXCEPT !.lines = StripDirectives(@)]
      h == IF RewritesHandlers(f) THEN rewriteHandler(f.handler, {})
           ELSE [decl |-> f.handler, core |-> {}]
      d == IF RewritesHandlers(f) THEN rewriteDefault(f.default, h.core)
           ELSE [decl |-> f.default, core |-> h.core]
      saved == [stripped EXCEPT !.handler = h.decl, !.default = d.decl,
                                !.imports = rewriteImports(f.imports, d.core)]
  IN [file |-> saved, core |-> d.core, wasModified |-> saved # f]

\* ------------------------------------------- updateFile, pass after pass
MaxPasses == 2
ReqBody == <<Stmt("return", Call(Pae("ctx", <<"renderNotFound">>), <<>>), 0)>>
FileParamLists ==
  {<<IdParam("req", "")>>,
   <<IdParam("req", "Request"), IdParam("ctx", "RouteContext")>>,
   <<IdParam("_req", ""), PatParam(<<"remoteAddr">>, FALSE, "")>>,
   <<IdParam("req", ""), IdParam("ctx", ""), IdParam("extra", "")>>}
FileHandlers ==
  {Handler("none", NoFn, <<>>)}
    \cup {Handler("func", Fn("funcdecl", ps, TRUE, ReqBody), <<>>) : ps \in FileParamLists}
    \cup {Handler("object", NoFn, <<Prop(n, "method", Fn("method", ps, TRUE, ReqBody))>>) :
            n \in {"GET", "helper"}, ps \in FileParamLists}
    \cup {Handler("object", NoFn, <<Prop(n, "assign", Fn("arrow", ps, TRUE, ReqBody))>>) :
            n \in {"GET", "helper"}, ps \in FileParamLists}
FileDefaults ==
  {Default("none", "", NoFn),
   Default("call", "defineRoute",
           Fn("arrow", <<IdParam("req", ""), IdParam("ctx", "")>>, TRUE, ReqBody)),
   Default("func", "", Fn("funcdecl", <<IdParam("props", "PageProps")>>, TRUE, <<>>))}
Optional(S) == {<<>>} \cup {<<x>> : x \in S}
FileImports ==
  {a \o b \o c \o d \o e :
     a \in Optional({Import("preact", <<"h", "render">>, FALSE), Import("preact", <<"h">>, FALSE)}),
     b \in Optional({Import("$fresh/server.ts", <<"Handlers">>, FALSE),
                     Import("$fresh/server.ts", <<"PageProps", "RouteContext">>, FALSE)}),
     c \in Optional({Import("$fresh/runtime.ts", <<"Head">>, FALSE)}),
     d \in Optional({Import("fresh", <<"App">>, FALSE)}),
     e \in Optional({Import("fresh/compat", <<"AppProps">>, FALSE)})}
FileLines ==
  {<<>>, <<"/** @jsx h */", "code">>, <<"code", "/// <reference lib=\"dom\" />">>}
Files ==
  [inRoutes : BOOLEAN, private : BOOLEAN, lines : FileLines, imports : FileImports,
   handler : FileHandlers, default : FileDefaults]

FileIdle ==
  /\ fIn = [inRoutes |-> FALSE, private |-> FALSE, lines |-> <<>>, imports |-> <<>>,
            handler |-> Handler("none", NoFn, <<>>), default |-> Default("none", "", NoFn)]
  /\ fFile = fIn
  /\ fPrev = fIn
  /\ fCore = {}
  /\ fRuns = 0

FileStart ==
  /\ fIn \in Files
  /\ fFile = fIn
  /\ fPrev = fIn
  /\ fCore = {}
  /\ fRuns = 0

\* One call of updateFile on the file, up to sourceFile.save().
UpdateFile ==
  /\ fRuns < MaxPasses
  /\ \E r \in {updateFile(fFile)} :
       /\ fFile' = r.file
       /\ fCore' = r.core
  /\ fPrev' = fFile
  /\ fRuns' = fRuns + 1
  /\ UNCHANGED fIn
  /\ UNCHANGED <<walkerVars, paramVars, manifestVars, projectVars>>

\* ------------------------------------------------------ the manifest
\* A JSON object is the sequence of its members in order, each [k, t, s, o]:
\* the key k and a value of type t, "str" (the string s), "bool" (s is
\* "true" or "false"), "null", or "obj" (the object o, whose members are
\* strings).
Member(k, t, v, o) == [k |-> k, t |-> t, s |-> v, o |-> o]
StrMember(k, v) == Member(k, "str", v, <<>>)
ObjMember(k, o) == Member(k, "obj", "", o)

\* The text of a file is [doc, layout]: the JSON value it holds and how it is
\* laid out: "pretty" (as JSON.stringify(doc, null, 2) writes it), "pretty_nl"
\* (the same followed by a line break) or "other" (any other layout: other
\* indentation, comments).  NoFile stands for a file that does not exist.
Text(doc, layout) == [exists |-> TRUE, doc |-> doc, layout |-> layout]
NoFile == [exists |-> FALSE, doc |-> <<>>, layout |-> ""]

\* JSONC.parse(content)
Parse(text) == text.doc
\* JSON.stringify(json, null, 2)
Stringify(doc) == Text(doc, "pretty")
\* originalContent.trim()
Trim(text) == IF text.layout = "pretty_nl" THEN [text EXCEPT !.layout = "pretty"] ELSE text
\* newContent + "\n"
WithNewline(text) == [text EXCEPT !.layout = "pretty_nl"]

FRESH_VERSION == "2.0.0-alpha.34"
PREACT_VERSION == "10.26.6"
PREACT_SIGNALS_VERSION == "2.0.4"
FreshImport == "jsr:@fresh/core@^" \o FRESH_VERSION
PreactImport == "npm:preact@^" \o PREACT_VERSION
SignalsImport == "npm:@preact/signals@^" \o PREACT_SIGNALS_VERSION

HasKey(o, k) == \E j \in 1..Len(o) : o[j].k = k
Get(o, k) == o[CHOOSE j \in 1..Len(o) : o[j].k = k]
\* o[k] = m: in place when o has the key, as its last member otherwise
Put(o, m) ==
  IF HasKey(o, m.k) THEN [j \in 1..Len(o) |-> IF o[j].k = m.k THEN m ELSE o[j]]
  ELSE Append(o, m)
\* delete o[k]
Delete(o, k) == SelectSeq(o, LAMBDA m : m.k # k)
\* o[k] === v
Is(o, k, v) == HasKey(o, k) /\ Get(o, k).t = "str" /\ Get(o, k).s = v

LegacyManifestTask == "deno task cli manifest $(pwd)"
LegacyCliTaskEscaped == "echo \"import '\\$fresh/src/dev/cli.ts'\" | deno run --unstable -A -"
LegacyCliTask == "echo \"import '$fresh/src/dev/cli.ts'\" | deno run --unstable -A -"
LegacyUpdateTask == "deno run -A -r https://fresh.deno.dev/update ."
NewUpdateTask == "deno run -A -r jsr:@fresh/update ."
LegacyCheckTask == "deno fmt --check && deno lint && deno check **/*.ts && deno check **/*.tsx"
NewCheckTask == "deno fmt --check && deno lint && deno check"

\* Lines 149-174 on the object tasks.
editTasks(tasks) ==
  LET t1 == IF Is(tasks, "manifest", LegacyManifestTask) THEN Delete(tasks, "manifest") ELSE tasks
      t2 == IF Is(t1, "cli", LegacyCliTaskEscaped) \/ Is(t1, "cli", LegacyCliTask)
            THEN Delete(t1, "cli") ELSE t1
      t3 == IF Is(t2, "update", LegacyUpdateTask)
            THEN Put(t2, StrMember("update", NewUpdateTask)) ELSE t2
  IN IF Is(t3, "check", LegacyCheckTask) THEN Put(t3, StrMember("check", NewCheckTask)) ELSE t3

\* Lines 135-141 on the object config.imports.
editImports(imports) ==
  Delete(Delete(Delete(
    Put(Put(Put(imports, StrMember("fresh", FreshImport)),
            StrMember("preact", PreactImport)),
        StrMember("@preact/signals", SignalsImport)),
    "$fresh/"), "@preact/signals-core"), "preact-render-to-string")

\* The callback of lines 130-175 throws: config.imports or config.tasks is null.
editThrows(config) ==
  \/ HasKey(config, "imports") /\ Get(config, "imports").t = "null"
  \/ HasKey(config, "tasks") /\ Get(config, "tasks").t = "null"

\* The callback of lines 130-175 on the parsed manifest.
editConfig(config) ==
  LET c1 == IF ~HasKey(config, "imports") \/ Get(config, "imports").t # "obj"
            THEN Put(config, ObjMember("imports", <<>>)) ELSE config
      c2 == Put(c1, ObjMember("imports", editImports(Get(c1, "imports").o)))
      c3 == Delete(c2, "lock")
  IN IF HasKey(c3, "tasks") /\ Get(c3, "tasks").t = "obj"
     THEN Put(c3, ObjMember("tasks", editTasks(Get(c3, "tasks").o)))
     ELSE c3

\* The comparison against the content as read, untrimmed.
contentChangedUntrimmed(newContent, originalContent) == newContent # originalContent
\* The comparison of line 87.
contentChanged(newContent, originalContent) == newContent # Trim(originalContent)

\* updateDenoJson(dir, fn) with the callback of updateProject, on the directory
\* disk = [json, jsonc]: the directory afterwards and what the call did.
updateDenoJson(disk) ==
  LET path == IF disk.json.exists THEN "deno.json"
              ELSE IF disk.jsonc.exists THEN "deno.jsonc" ELSE "null"
      originalContent == IF path = "deno.json" THEN disk.json ELSE disk.jsonc
      json == Parse(originalContent)
      newContent == Stringify(editConfig(json))
  IN
  IF path = "null"
  THEN [disk |-> disk, updated |-> FALSE, path |-> path, wrote |-> FALSE, threw |-> FALSE,
        newContent |-> NoFile]
  ELSE IF editThrows(json)
  THEN [disk |-> disk, updated |-> FALSE, path |-> path, wrote |-> FALSE, threw |-> TRUE,
        newContent |-> NoFile]
  ELSE IF contentChanged(newContent, originalContent)
  THEN [disk |-> IF path = "deno.json" THEN [disk EXCEPT !.json = WithNewline(newContent)]
                 ELSE [disk EXCEPT !.jsonc = WithNewline(newContent)],
        updated |-> TRUE, path |-> path, wrote |-> TRUE, threw |-> FALSE,
        newContent |-> newContent]
  ELSE [disk |-> disk, updated |-> FALSE, path |-> path, wrote |-> FALSE, threw |-> FALSE,
        newContent |-> newContent]

\* ---------------------------------------- the manifest update, run by run
MaxRuns == 2
MaxImportKeys == 2
ImportMembers ==
  {StrMember("fresh", FreshImport), StrMember("fresh", "jsr:@fresh/core@^2.0.0-alpha.1"),
   StrMember("preact", "https://esm.sh/preact@10.19.2"),
   StrMember("@preact/signals", "https://esm.sh/*@preact/signals@1.2.1"),
   StrMember("$fresh/", "https://deno.land/x/fresh@1.6.8/"),
   StrMember("@preact/signals-core", "https://esm.sh/*@preact/signals-core@1.5.0"),
   StrMember("preact-render-to-string", "https://esm.sh/*preact-render-to-string@6.2.2"),
   StrMember("$std/", "https://deno.land/std@0.211.0/")}
DistinctKeys(o) == \A i, j \in 1..Len(o) : o[i].k = o[j].k => i = j
ImportObjects == {o \in SeqsUpTo(ImportMembers, MaxImportKeys) : DistinctKeys(o)}
TaskObjects ==
  {<<>>,
   <<StrMember("manifest", LegacyManifestTask)>>,
   <<StrMember("manifest", "deno run -A dev.ts manifest")>>,
   <<StrMember("cli", LegacyCliTaskEscaped), StrMember("start", "deno run -A dev.ts")>>,
   <<StrMember("cli", LegacyCliTask)>>,
   <<StrMember("update", LegacyUpdateTask), StrMember("check", LegacyCheckTask)>>,
   <<StrMember("check", NewCheckTask), StrMember("update", NewUpdateTask)>>,
   <<StrMember("check", LegacyCheckTask), StrMember("manifest", LegacyManifestTask),
     StrMember("cli", LegacyCliTaskEscaped), StrMember("update", LegacyUpdateTask)>>}
Manifests ==
  {lock \o tasks \o imports :
     lock \in {<<>>, <<Member("lock", "bool", "false", <<>>)>>},
     tasks \in {<<>>, <<Member("tasks", "null", "", <<>>)>>}
                 \cup {<<ObjMember("tasks", t)>> : t \in TaskObjects},
     imports \in {<<>>, <<StrMember("imports", "./import_map.json")>>,
                  <<Member("imports", "null", "", <<>>)>>}
                   \cup {<<ObjMember("imports", o)>> : o \in ImportObjects}}
ManifestTexts == {Text(doc, l) : doc \in Manifests, l \in {"pretty", "pretty_nl", "other"}}
Directories ==
  {[json |-> NoFile, jsonc |-> NoFile]}
    \cup {[json |-> t, jsonc |-> NoFile] : t \in ManifestTexts}
    \cup {[json |-> NoFile, jsonc |-> t] : t \in ManifestTexts}

NoRun == [updated |-> FALSE, path |-> "", wrote |-> FALSE, threw |-> FALSE, newContent |-> NoFile]

ManifestIdle ==
  /\ mDisk = [json |-> NoFile, jsonc |-> NoFile]
  /\ mRes = NoRun
  /\ mPrev = NoRun
  /\ mRuns = 0

ManifestStart ==
  /\ mDisk \in Directories
  /\ mRes = NoRun
  /\ mPrev = NoRun
  /\ mRuns = 0

\* One run of phase 1 of updateProject: the call of updateDenoJson.
UpdateManifest ==
  /\ mRuns < MaxRuns
  /\ \E r \in {updateDenoJson(mDisk)} :
       /\ mDisk' = r.disk
       /\ mRes' = [updated |-> r.updated, path |-> r.path, wrote |-> r.wrote,
                   threw |-> r.threw, newContent |-> r.newContent]
  /\ mPrev' = mRes
  /\ mRuns' = mRuns + 1
  /\ UNCHANGED <<walkerVars, paramVars, fileVars, projectVars>>

\* ------------------------------------------------------ specifications
\* ------------------------------------------------------ updateProject
MaxFiles == 2

Pending == [state |-> "pending", success |-> FALSE, modified |-> FALSE]
NotReturned == [done |-> FALSE, configUpdated |-> FALSE, filesProcessed |-> 0,
                filesModified |-> 0, errors |-> 0]
NewTask == [pos |-> "new", wasModified |-> FALSE]

\* A callback that reports every file unmodified.
successResultUnmodified(wasModified) == [state |-> "fulfilled", success |-> TRUE, modified |-> FALSE]
\* Lines 207-211: the value of the callback whose updateFile resolved.
successResult(wasModified) == [state |-> "fulfilled", success |-> TRUE, modified |-> wasModified]
\* A callback that lets the error of updateFile through: its promise rejects.
catchResultRethrown == [state |-> "rejected", success |-> FALSE, modified |-> FALSE]
\* Lines 212-224: the callback whose updateFile rejected.
catchResult == [state |-> "fulfilled", success |-> FALSE, modified |-> FALSE]

\* Promise.all over the callbacks of the files 1..n: rejected as soon as one
\* is rejected, fulfilled once all are fulfilled.
PromiseAll(rs, n) ==
  IF \E i \in 1..n : rs[i].state = "rejected" THEN "rejected"
  ELSE IF \A i \in 1..n : rs[i].state = "fulfilled" THEN "fulfilled"
  ELSE "pending"

ProjectIdle ==
  /\ pc = "idle"
  /\ files = 0
  /\ sfs = <<>>
  /\ launched = 0
  /\ task = [i \in 1..MaxFiles |-> NewTask]
  /\ written = {}
  /\ processedCount = 0
  /\ modifiedCount = 0
  /\ results = [i \in 1..MaxFiles |-> Pending]
  /\ settled = <<>>
  /\ returned = NotReturned

ProjectDirectories ==
  {[json |-> NoFile, jsonc |-> NoFile],
   [json |-> Text(<<ObjMember("imports", <<StrMember("$fresh/", "https://deno.land/x/fresh@1.6.8/")>>)>>,
                  "pretty_nl"),
    jsonc |-> NoFile],
   [json |-> Text(<<ObjMember("imports", <<StrMember("fresh", FreshImport),
                                            StrMember("preact", PreactImport),
                                            StrMember("@preact/signals", SignalsImport)>>)>>,
                  "pretty_nl"),
    jsonc |-> NoFile],
   [json |-> NoFile,
    jsonc |-> Text(<<Member("imports", "null", "", <<>>)>>, "other")]}

ProjectStart ==
  /\ pc = "config"
  /\ files \in 0..MaxFiles
  /\ sfs = <<>>
  /\ launched = 0
  /\ task = [i \in 1..MaxFiles |-> NewTask]
  /\ written = {}
  /\ processedCount = 0
  /\ modifiedCount = 0
  /\ results = [i \in 1..MaxFiles |-> Pending]
  /\ settled = <<>>
  /\ returned = NotReturned
  /\ mDisk \in ProjectDirectories
  /\ mRes = NoRun
  /\ mPrev = NoRun
  /\ mRuns = 0

\* A run that goes on to phase 2 whether or not updateDenoJson threw.
afterConfigErrorIgnored(threw) == "discover"
\* Line 130: the await of updateDenoJson rethrows its error, which ends the
\* run; otherwise the run goes on to phase 2.
afterConfig(threw) == IF threw THEN "rejected" ELSE "discover"

\* Phase 1, lines 130-175: the awaited call of updateDenoJson.  A read may fail
\* with an error other than NotFound and a write may fail; either rejects the
\* run, as does an error thrown by the callback.
ConfigPhase ==
  /\ pc = "config"
  /\ \E io \in {"ok", "readError", "writeError"} :
       \E r \in {updateDenoJson(mDisk)} :
         IF io = "readError" \/ r.threw \/ (io = "writeError" /\ r.wrote)
         THEN /\ pc' = afterConfig(TRUE)
              /\ mRes' = [NoRun EXCEPT !.threw = TRUE]
              /\ UNCHANGED mDisk
         ELSE /\ pc' = afterConfig(FALSE)
              /\ mDisk' = r.disk
              /\ mRes' = [updated |-> r.updated, path |-> r.path, wrote |-> r.wrote,
                          threw |-> r.threw, newContent |-> r.newContent]
  /\ mPrev' = mRes
  /\ mRuns' = mRuns + 1
  /\ UNCHANGED <<files, sfs, launched, task, written, processedCount, modifiedCount,
                 results, settled, returned>>
  /\ UNCHANGED <<walkerVars, paramVars, fileVars>>

\* Lines 189-192: project.addSourceFilesAtPaths.
Discover ==
  /\ pc = "discover"
  /\ sfs' = [i \in 1..files |-> i]
  /\ pc' = "launch"
  /\ UNCHANGED <<files, launched, task, written, processedCount, modifiedCount,
                 results, settled, returned>>
  /\ UNCHANGED <<walkerVars, paramVars, fileVars, manifestVars>>

\* Line 200, sfs.map: the callback of the next file runs up to its first
\* suspension: updateFile rewrites the tree (lines 268-465) and either throws
\* or reaches the await of sourceFile.save().
Launch ==
  /\ pc = "launch"
  /\ launched < Len(sfs)
  /\ \E throws \in BOOLEAN, wasModified \in BOOLEAN :
       task' = [task EXCEPT ![launched + 1] =
                  IF throws THEN [pos |-> "thrown", wasModified |-> FALSE]
                  ELSE [pos |-> "saving", wasModified |-> wasModified]]
  /\ launched' = launched + 1
  /\ UNCHANGED <<pc, files, sfs, written, processedCount, modifiedCount,
                 results, settled, returned>>
  /\ UNCHANGED <<walkerVars, paramVars, fileVars, manifestVars>>

\* Line 200: every callback has been started; the run awaits Promise.all.
AwaitAll ==
  /\ pc = "launch"
  /\ launched = Len(sfs)
  /\ pc' = "join"
  /\ UNCHANGED <<files, sfs, launched, task, written, processedCount, modifiedCount,
                 results, settled, returned>>
  /\ UNCHANGED <<walkerVars, paramVars, fileVars, manifestVars>>

\* The callbacks run once the run has yielded at line 200.
Yielded == pc \in {"join", "returned", "rejected"}

\* Line 467: sourceFile.save() completes or fails.
Saved(i) ==
  /\ Yielded
  /\ task[i].pos = "saving"
  /\ \E ok \in BOOLEAN :
       IF ok
       THEN /\ written' = written \cup {i}
            /\ task' = [task EXCEPT ![i].pos = "formatting"]
       ELSE /\ task' = [task EXCEPT ![i].pos = "thrown"]
            /\ UNCHANGED written
  /\ UNCHANGED <<pc, files, sfs, launched, processedCount, modifiedCount,
                 results, settled, returned>>
  /\ UNCHANGED <<walkerVars, paramVars, fileVars, manifestVars>>

\* Lines 495 and 20-37: the formatter exits with code 0, exits with another
\* code (a warning) or cannot be run (command.output() rejects).
Formatted(i) ==
  /\ Yielded
  /\ task[i].pos = "formatting"
  /\ \E outcome \in {"zero", "nonzero", "rejects"} :
       task' = [task EXCEPT ![i].pos = IF outcome = "rejects" THEN "thrown" ELSE "resolved"]
  /\ UNCHANGED <<pc, files, sfs, launched, written, processedCount, modifiedCount,
                 results, settled, returned>>
  /\ UNCHANGED <<walkerVars, paramVars, fileVars, manifestVars>>

\* Lines 202-211: the callback resumes with the value of updateFile.
Count(i) ==
  /\ Yielded
  /\ task[i].pos = "resolved"
  /\ processedCount' = processedCount + 1
  /\ modifiedCount' = IF task[i].wasModified THEN modifiedCount + 1 ELSE modifiedCount
  /\ results' = [results EXCEPT ![i] = successResult(task[i].wasModified)]
  /\ task' = [task EXCEPT ![i].pos = "settled"]
  /\ settled' = Append(settled, i)
  /\ UNCHANGED <<pc, files, sfs, launched, written, returned>>
  /\ UNCHANGED <<walkerVars, paramVars, fileVars, manifestVars>>

\* Lines 212-224: the callback resumes with the error of updateFile.
Catch(i) ==
  /\ Yielded
  /\ task[i].pos = "thrown"
  /\ results' = [results EXCEPT ![i] = catchResult]
  /\ task' = [task EXCEPT ![i].pos = "settled"]
  /\ settled' = Append(settled, i)
  /\ UNCHANGED <<pc, files, sfs, launched, written, processedCount, modifiedCount, returned>>
  /\ UNCHANGED <<walkerVars, paramVars, fileVars, manifestVars>>

\* Lines 200 and 228-261: Promise.all settles; the run returns the summary or
\* rejects.
Join ==
  /\ pc = "join"
  /\ PromiseAll(results, Len(sfs)) # "pending"
  /\ IF PromiseAll(results, Len(sfs)) = "fulfilled"
     THEN /\ pc' = "returned"
          /\ returned' = [done |-> TRUE,
                          configUpdated |-> mRes.updated,
                          filesProcessed |-> processedCount,
                          filesModified |-> modifiedCount,
                          errors |-> Cardinality({i \in 1..Len(sfs) : ~results[i].success})]
     ELSE /\ pc' = "rejected"
          /\ UNCHANGED returned
  /\ UNCHANGED <<files, sfs, launched, task, written, processedCount, modifiedCount,
                 results, settled>>
  /\ UNCHANGED <<walkerVars, paramVars, fileVars, manifestVars>>

TaskStep(i) == Saved(i) \/ Formatted(i) \/ Count(i) \/ Catch(i)

NextProject ==
  \/ ConfigPhase
  \/ Discover
  \/ Launch
  \/ AwaitAll
  \/ \E i \in 1..MaxFiles : Saved(i)
  \/ \E i \in 1..MaxFiles : Formatted(i)
  \/ \E i \in 1..MaxFiles : Count(i)
  \/ \E i \in 1..MaxFiles : Catch(i)
  \/ Join

InitWalker == WalkerStart /\ ParamIdle /\ FileIdle /\ ManifestIdle /\ ProjectIdle
SpecWalker == InitWalker /\ [][WalkStep]_vars
InitParam == ParamStart /\ WalkerIdle /\ FileIdle /\ ManifestIdle /\ ProjectIdle
SpecParam == InitParam /\ [][Normalize]_vars
InitFile == FileStart /\ WalkerIdle /\ ParamIdle /\ ManifestIdle /\ ProjectIdle
SpecFile == InitFile /\ [][UpdateFile]_vars
InitManifest == ManifestStart /\ WalkerIdle /\ ParamIdle /\ FileIdle /\ ProjectIdle
SpecManifest == InitManifest /\ [][UpdateManifest]_vars
InitProject == ProjectStart /\ WalkerIdle /\ ParamIdle /\ FileIdle
\* The event loop runs every continuation that is ready, and every save and
\* every formatter process ends.
SpecProject == InitProject /\ [][NextProject]_vars /\ WF_vars(NextProject)

\* ------------------------------------------------------------- claims
\* The largest index of names that holds n, 0 if none does.
LastIndexOf(names, n) ==
  LET S == {j \in 1..Len(names) : names[j] = n} IN
  IF S = {} THEN 0 ELSE CHOOSE j \in S : \A i \in S : i <= j

\* The visit of expression b, with result a, leaves everything but the
\* chains it reaches and the arguments of their calls as it was.
RECURSIVE SameShape(_, _)
SameShape(b, a) ==
  CASE b.kind = "pae" -> a.kind = "pae"
    [] b.kind = "call" ->
         /\ a.kind = "call"
         /\ IF b.sub[1].kind = "pae"
            THEN a.sub[1].kind = "pae"
            ELSE a.args = b.args /\ SameShape(b.sub[1], a.sub[1])
    [] b.kind \in {"await", "bin"} ->
         /\ a.kind = b.kind
         /\ Len(a.sub) = Len(b.sub)
         /\ \A j \in 1..Len(b.sub) : SameShape(b.sub[j], a.sub[j])
    [] OTHER -> a = b

\* The chains that the visit of expression b reaches, each with what the visit
\* made of it in the result a: the chain before and after, whether it is the
\* callee of a call, and that call's arguments before and after.
RECURSIVE Reached(_, _)
Reached(b, a) ==
  CASE b.kind = "pae" ->
         {[cb |-> b, ca |-> a, called |-> FALSE, argsB |-> <<>>, argsA |-> <<>>]}
    [] b.kind = "call" ->
         IF b.sub[1].kind = "pae"
         THEN {[cb |-> b.sub[1], ca |-> a.sub[1], called |-> TRUE,
                argsB |-> b.args, argsA |-> a.args]}
         ELSE Reached(b.sub[1], a.sub[1])
    [] b.kind \in {"await", "bin"} ->
         UNION {Reached(b.sub[j], a.sub[j]) : j \in 1..Len(b.sub)}
    [] OTHER -> {}

Visited == wLast # 0 /\ wPrev.kind \in {"return", "var", "expr"}

\* The rewriter comes to the access root.names[1] of chain cb: no access
\* further out is named renderNotFound.
ReachesFirstAccess(cb) == \A j \in 2..Len(cb.names) : cb.names[j] # "renderNotFound"

C3_Reads(t) ==
  (t.cb.root = "ctx" /\ t.cb.names[1] = "remoteAddr" /\ ReachesFirstAccess(t.cb)) =>
    /\ t.ca.root = "ctx"
    /\ t.ca.names = <<"info", "remoteAddr">> \o Tail(t.cb.names)
    /\ t.argsA = t.argsB

\* C3: when rewriteCtxMemberName visits the access ctx.remoteAddr, the chain
\* reads ctx.info.remoteAddr afterwards, remoteAddr occurring once, followed
\* by the accesses that followed remoteAddr before.
C3_RemoteAddrReadsCtxInfoRemoteAddr ==
  Visited =>
    /\ SameShape(wPrev.e, wBody[wLast].e)
    /\ \A t \in Reached(wPrev.e, wBody[wLast].e) : C3_Reads(t)

C4_Renamed(t) ==
  LET k == LastIndexOf(t.cb.names, "renderNotFound") IN
  k # 0 =>
    /\ t.ca.root = t.cb.root
    /\ t.ca.names = [t.cb.names EXCEPT ![k] = "throw"]
    /\ t.argsA = IF t.called /\ k = Len(t.cb.names) THEN t.argsB \o <<"404">> ELSE t.argsB

\* C4: a visit of a chain whose final accessed name is renderNotFound (the whole
\* chain, or the receiver part the rewriter recurses into) renames that name
\* to throw; when the access is the callee of a call, 404 becomes the last
\* argument after the original ones, otherwise no argument is added; no other
\* name of the chain changes.
C4_RenderNotFoundBecomesThrow404 ==
  Visited =>
    /\ SameShape(wPrev.e, wBody[wLast].e)
    /\ \A t \in Reached(wPrev.e, wBody[wLast].e) : C4_Renamed(t)

C4_Witness ==
  /\ Visited
  /\ wPrev.e.kind = "call"
  /\ wPrev.e.sub[1] = Pae("ctx", <<"state", "renderNotFound">>)
  /\ wPrev.e.args = <<"a", "b">>
  /\ wBody[wLast].e.args = <<"a", "b", "404">>
  /\ wBody[wLast].e.sub[1].names = <<"state", "throw">>

Normalized == pState \in {"returned", "warned"}

C5_Case ==
  /\ Normalized
  /\ pIn.inferred
  /\ pIn.fn.block
  /\ pIn.fn.params = <<IdParam("req", "")>>

\* C5 as claimed: in inferred-typing mode a block-bodied handler (req) becomes
\* (ctx: FreshContext) with const req = ctx.req first in its body, and
\* FreshContext is registered in the core import set.
C5_Original ==
  C5_Case =>
    /\ pFn.params = <<IdParam("ctx", "FreshContext")>>
    /\ pFn.body = InsertFirst(ConstDecl("req", "ctx", "req"), pIn.fn.body)
    /\ "FreshContext" \in pCore

\* C5, amended: in inferred-typing mode a block-bodied handler (req), req
\* without a type annotation, becomes (ctx) with const req = ctx.req first in
\* its body; ctx gets no type annotation and the core import set is left as
\* it was.
C5_InferredReqBecomesUntypedCtx ==
  C5_Case =>
    /\ pFn.params = <<IdParam("ctx", "")>>
    /\ pFn.body = InsertFirst(ConstDecl("req", "ctx", "req"), pIn.fn.body)
    /\ pCore = pIn.core

C5_Witness ==
  /\ C5_Case
  /\ pIn.core = {}
  /\ pIn.fn.kind = "method"
  /\ pFn.params[1].name = "ctx"
  /\ pFn.body[1].name = "req"

C6_Case ==
  /\ Normalized
  /\ pIn.fn.block
  /\ Len(pIn.fn.params) = 2
  /\ pIn.fn.params[1].name = "req"
  /\ pIn.fn.params[2].pattern
  /\ \E j \in 1..Len(pIn.fn.params[2].elems) : pIn.fn.params[2].elems[j] = "remoteAddr"

Binds(p, n) == p.pattern /\ \E j \in 1..Len(p.elems) : p.elems[j] = n

C7_ExpressionArrowUntouched ==
  (Normalized /\ pIn.fn.kind = "arrow" /\ ~pIn.fn.block) =>
    /\ pFn = pIn.fn
    /\ pCore = pIn.core

\* C1: the rewrite pass is idempotent: a second pass over the output of a
\* first pass changes nothing.
C1_SecondPassChangesNothing ==
  fRuns >= 2 => fFile = fPrev

DistinctSpecifiers(ds) ==
  \A i, j \in 1..Len(ds) : ds[i].spec = ds[j].spec => i = j

\* C2: after updateFile has rewritten the imports of a file whose import
\* declarations had pairwise distinct module specifiers, no two import
\* declarations of the file share a module specifier.
C2_NoTwoImportsShareASpecifier ==
  (fRuns = 1 /\ DistinctSpecifiers(fIn.imports)) => DistinctSpecifiers(fFile.imports)

\* C10: for a file of a private route group (its directory path includes
\* "/(_"), updateFile changes no handler parameter list and no handler body
\* and leaves the core import set empty: the lines of the text and the import
\* declarations are all that may change.
C10_PrivateGroupHandlersUntouched ==
  (fRuns >= 1 /\ fPrev.private) =>
    /\ fFile.handler = fPrev.handler
    /\ fFile.default = fPrev.default
    /\ fCore = {}
    /\ fFile = [fPrev EXCEPT !.lines = fFile.lines, !.imports = fFile.imports]

C10_Witness ==
  /\ fRuns = 1
  /\ fPrev.private
  /\ fPrev.inRoutes
  /\ fPrev.handler.kind = "object"
  /\ fPrev.handler.props[1].name = "GET"
  /\ fPrev.handler.props[1].fn.params = <<IdParam("req", "")>>
  /\ fFile.handler = fPrev.handler
  /\ fFile.lines # fPrev.lines
  /\ fFile.imports # fPrev.imports

\* C9: a run of the manifest update on a manifest that the run before has
\* written serializes content identical to what is on disk, writes nothing
\* and returns updated = false.
C9_SecondManifestRunWritesNothing ==
  (mRuns >= 2 /\ mPrev.wrote) =>
    /\ ~mRes.threw
    /\ mRes.updated = FALSE
    /\ ~mRes.wrote
    /\ mRes.path = mPrev.path
    /\ mRes.newContent = mPrev.newContent
    /\ WithNewline(mRes.newContent) =
         (IF mRes.path = "deno.json" THEN mDisk.json ELSE mDisk.jsonc)

C9_Witness ==
  /\ mRuns = 2
  /\ mPrev.wrote
  /\ mPrev.path = "deno.jsonc"
  /\ ~mRes.wrote
  /\ HasKey(Parse(mDisk.jsonc), "tasks")
  /\ Is(Get(Parse(mDisk.jsonc), "tasks").o, "update", NewUpdateTask)
  /\ Is(Get(Parse(mDisk.jsonc), "imports").o, "fresh", FreshImport)

\* C8: a failure of one file's task never cancels or blocks another's: the
\* run rejects only in phase 1, a started task can always take its next step
\* whatever became of the others, every started task settles, and the summary
\* is returned only after every discovered file's task has settled.
C8_Isolated ==
  /\ pc = "rejected" => launched = 0
  /\ pc = "returned" =>
        /\ launched = files
        /\ \A i \in 1..files : task[i].pos = "settled" /\ results[i].state = "fulfilled"
        /\ returned.done
  /\ \A i \in 1..MaxFiles :
        (Yielded /\ task[i].pos \notin {"new", "settled"}) => ENABLED TaskStep(i)
C8_FailureNeverBlocksOtherTasks ==
  /\ []C8_Isolated
  /\ \A i \in 1..MaxFiles : (task[i].pos # "new") ~> (task[i].pos = "settled")
  /\ (pc = "discover") ~> (pc = "returned")

C8_Witness ==
  /\ pc = "returned"
  /\ files >= 2
  /\ \E m, n \in 1..Len(settled) :
       /\ m < n
       /\ ~results[settled[m]].success
       /\ settled[m] > settled[n]
       /\ results[settled[n]].success
       /\ settled[n] \in written
  /\ returned.errors >= 1
  /\ returned.filesProcessed >= 1

\* C11: when the first parameter's name starts with an underscore, the
\* normalizer inserts no declaration initialised with ctx.req into the body
\* and adds no req to a destructuring pattern, whatever the number of
\* parameters and the shape of the second one.
C11_Case ==
  /\ Normalized
  /\ Len(pIn.fn.params) >= 1
  /\ StartsWithUnderscore(pIn.fn.params[1].name)
C11_UnderscoreGetsNoReqBinding ==
  C11_Case =>
    /\ \A j \in 1..Len(pFn.body) :
         ~(pFn.body[j].kind = "var" /\ pFn.body[j].e = Pae("ctx", <<"req">>))
    /\ \A j \in 1..Len(pFn.params) : ~Binds(pFn.params[j], "req")
    /\ Len(pIn.fn.params) >= 2 /\ pIn.fn.params[2].pattern /\ ~pState = "warned"
         => pFn.params[1].elems = RenameRemoteAddr(pIn.fn.params[2].elems)

C11_Witness ==
  /\ C11_Case
  /\ pIn.fn.params = <<IdParam("_req", ""), PatParam(<<"remoteAddr", "params">>, FALSE, "")>>
  /\ pFn.params = <<PatParam(<<"info", "params">>, FALSE, "")>>
  /\ pFn.body = InsertFirst(ConstDecl("remoteAddr", "info", "remoteAddr"), pIn.fn.body)

\* C14: when the normalizer removes or renames a first parameter named N, N
\* not starting with an underscore, N is still bound in the function: its
\* body starts with const N = ctx.req and it has a parameter named ctx, or a
\* pattern among its parameters binds N.
C14_Case ==
  /\ Normalized
  /\ Len(pIn.fn.params) >= 1
  /\ ~pIn.fn.params[1].pattern
  /\ ~StartsWithUnderscore(pIn.fn.params[1].name)
  /\ \/ Len(pFn.params) < Len(pIn.fn.params)
     \/ pFn.params[1].name # pIn.fn.params[1].name
C14_RemovedNameStillBound ==
  C14_Case =>
    \/ /\ Len(pFn.body) >= 1
       /\ pFn.body[1] = ConstDecl(pIn.fn.params[1].name, "ctx", "req")
       /\ \E j \in 1..Len(pFn.params) : ~pFn.params[j].pattern /\ pFn.params[j].name = "ctx"
    \/ \E j \in 1..Len(pFn.params) : Binds(pFn.params[j], pIn.fn.params[1].name)

\* C13: in an exported handler object a property whose name is not one of
\* GET, POST, PATCH, PUT, DELETE is left unchanged, be it a method or a
\* property assignment of an arrow function or function expression.
C13_OnlyHttpMethodPropertiesRewritten ==
  (fRuns = 1 /\ fPrev.handler.kind = "object") =>
    \A k \in 1..Len(fPrev.handler.props) :
      fPrev.handler.props[k].name \notin HttpMethods =>
        fFile.handler.props[k] = fPrev.handler.props[k]

\* C12: the manifest update has finished, without an error, before any
\* per-file task is started and before any source file is written; when it
\* raises an error the run ends with no task started and no file written.
C12_Untouched ==
  /\ launched = 0
  /\ written = {}
  /\ sfs = <<>>
  /\ \A i \in 1..MaxFiles : task[i] = NewTask
C12_ManifestFinishesBeforeFiles ==
  /\ pc = "config" => C12_Untouched /\ mRuns = 0
  /\ ~C12_Untouched => mRuns = 1 /\ ~mRes.threw /\ pc \notin {"config", "discover"}
  /\ mRes.threw => C12_Untouched /\ pc = "rejected"
  /\ pc = "rejected" => C12_Untouched

C12_Witness ==
  /\ pc = "returned"
  /\ mRes.wrote
  /\ mDisk.json.layout = "pretty_nl"
  /\ written = {1, 2}

\* C15: in the returned summary filesProcessed is the number of tasks that
\* succeeded, errors the number that failed, the two add up to the number of
\* files found, and filesModified is the number of successful tasks that
\* reported a modification, at most filesProcessed.
C15_Succeeded == {i \in 1..files : results[i].state = "fulfilled" /\ results[i].success}
C15_Failed == {i \in 1..files : results[i].state = "fulfilled" /\ ~results[i].success}
C15_SummaryCountsTasks ==
  pc = "returned" =>
    /\ returned.filesProcessed = Cardinality(C15_Succeeded)
    /\ returned.errors = Cardinality(C15_Failed)
    /\ returned.filesProcessed + returned.errors = files
    /\ returned.filesModified = Cardinality({i \in C15_Succeeded : results[i].modified})
    /\ returned.filesModified = Cardinality({i \in C15_Succeeded : task[i].wasModified})
    /\ returned.filesModified <= returned.filesProcessed

C15_Witness ==
  /\ pc = "returned"
  /\ files = 2
  /\ returned.filesProcessed = 1
  /\ returned.filesModified = 1
  /\ returned.errors = 1
  /\ settled = <<2, 1>>
  /\ ~results[2].success

====
